---- MODULE Spec2Model ----
(***************************************************************************)
(* Knowledge Canvas (src/src/app/page.tsx): the in-memory node/link store  *)
(* of KnowledgeCanvasPage, the contextual traversal (traverseGraph driven  *)
(* by the filteredNodesAndLinks memo), the hierarchical auto-layout and    *)
(* the force-directed simulation.                                          *)
(*                                                                         *)
(* Arrays are sequences, in the order the code keeps them.  A JavaScript   *)
(* Map or Set that the code iterates is a sequence in insertion order; one *)
(* that it only queries with has() is a set.  Coordinates and velocities   *)
(* are JavaScript numbers; they are kept in fixed point, in thousandths of *)
(* a pixel (Unit), and a null or undefined one is the empty sequence.      *)
(***************************************************************************)
EXTENDS Integers, Sequences, FiniteSets, TLC

VARIABLES
    nodes,               \* useState<NodeData[]>            page.tsx:119
    links,               \* useState<LinkData[]>            page.tsx:120
    searchTerm,          \* useState('')                    page.tsx:121
    searchDepth,         \* useState<number>(1)             page.tsx:122
    selectedFilterTags,  \* useState<string[]>([])          page.tsx:148
    layoutAlgorithm,     \* useState('hierarchical')        page.tsx:160
    loaded,              \* the mount effect loadData has run
    issuedNodes,         \* how many node ids exist or have existed (uuidv4 never repeats)
    issuedLinks,         \* the same for link ids
    memo,                \* the value of the filteredNodesAndLinks memo at the last render
    positionLog,         \* newPositionsMap.set calls of the last hierarchical layout
    lastOp,              \* the handler that ran last
    walk,                \* one stepwise run of the traversal (call stack of traverseGraph)
    force,               \* forceLayoutRef, and counts of what was requested of the browser
    frames,              \* the animation frames requested and not yet run, with their closures
    events               \* how many user events the page has handled

vars == <<nodes, links, searchTerm, searchDepth, selectedFilterTags,
          layoutAlgorithm, loaded, issuedNodes, issuedLinks, memo, positionLog, lastOp, walk,
          force, frames, events>>

(***************************************************************************)
(* Bounds of the model.                                                    *)
(***************************************************************************)
MaxLinks == 3
MaxDepth == 2
MaxDeletes == 1
\* Nodes and links of the canvas the whole page is run on.
MaxNodes == 2
MaxNewLinks == 1
\* Frames the call stack holds before the engine throws RangeError.
StackLimit == 6
\* User events on the page that runs the force-directed simulation, and the
\* physics step of a running simulation up to which the user acts.
MaxEvents == 2
MaxInterruptStep == 1

(***************************************************************************)
(* Generic helpers.                                                        *)
(***************************************************************************)
Range(s) == {s[i] : i \in 1..Len(s)}

Max2(a, b) == IF a >= b THEN a ELSE b

Min2(a, b) == IF a <= b THEN a ELSE b

\* JavaScript a || b on numbers: 0 is falsy.
JsOr(a, b) == IF a = 0 THEN b ELSE a

(***************************************************************************)
(* The data the user can put on the canvas.  Titles and search terms are   *)
(* distinct one-letter lower-case words, tags are distinct words none of   *)
(* which contains another, so that String.includes on them is equality.    *)
(***************************************************************************)
NodeIds == <<"A", "B", "C", "D">>

TitleOf == [A |-> "a", B |-> "b", C |-> "c", D |-> "d"]

TagsOf == [A |-> {"t1"}, B |-> {"t1", "t2"}, C |-> {"t2"}, D |-> {}]

HeightOf == [A |-> 160, B |-> 200, C |-> 160, D |-> 160]

\* The search box holds a sequence of tokens: a word, or " " for a run of
\* whitespace.
\* searchTerm.trim().toLowerCase().split(/\s+/).filter(term => term.length > 0),
\* page.tsx:889-894, on lower-case tokens.
SplitTerms(input) == SelectSeq(input, LAMBDA tok : tok # " ")

\* Thousandths of a pixel.
Unit == 1000

\* NodeData (src/types/index.ts): the fields the traversal and the layouts read.
\* vx and vy are only read through vx ?? 0, so an undefined one is 0.
NewNode(id, x, y) ==
    [id |-> id, title |-> TitleOf[id], tags |-> TagsOf[id],
     x |-> x, y |-> y, height |-> HeightOf[id],
     vx |-> 0, vy |-> 0, fx |-> <<>>, fy |-> <<>>]

\* LinkData (src/types/index.ts).
NewLink(id, s, t) == [id |-> id, sourceNodeId |-> s, targetNodeId |-> t]

Includes(text, term) == text = term

NodeIdSet(ns) == {ns[i].id : i \in 1..Len(ns)}

LinkIdSet(ls) == {ls[i].id : i \in 1..Len(ls)}

\* allNodes.find(n => n.id === id): the index of the first such node, 0 if none.
FindIdx(ns, id) ==
    IF \E i \in 1..Len(ns) : ns[i].id = id
    THEN CHOOSE i \in 1..Len(ns) : ns[i].id = id /\ \A j \in 1..(i - 1) : ns[j].id # id
    ELSE 0

(***************************************************************************)
(* traverseGraph, page.tsx:74-109.  The accumulators collectedNodes (a Map *)
(* iterated later, so a sequence of ids in insertion order) and            *)
(* collectedLinkIds (a Set only queried) are threaded through the calls;   *)
(* visitedNodesInPath is the set of nodes on the active path.  Each call   *)
(* looks its key up in the accumulators as Map.set and Set.add do, so the  *)
(* accumulators are computed call by call, in the order of the code.       *)
(***************************************************************************)
MapSet(order, id) == IF id \in Range(order) THEN order ELSE Append(order, id)

NeighborId(link, id) ==
    IF link.sourceNodeId = id THEN link.targetNodeId ELSE link.sourceNodeId

RelatedLinksOutgoing(allLinks, id) ==
    SelectSeq(allLinks, LAMBDA l : l.sourceNodeId = id)

\* allLinks.filter(...), page.tsx:97.
relatedLinks(allLinks, id) ==
    SelectSeq(allLinks, LAMBDA l : l.sourceNodeId = id \/ l.targetNodeId = id)

RefusedInverted(startNodeId, currentDepth, maxDepth, visitedNodesInPath) ==
    currentDepth < maxDepth \/ startNodeId \in visitedNodesInPath

RefusedAtBound(startNodeId, currentDepth, maxDepth, visitedNodesInPath) ==
    currentDepth >= maxDepth \/ startNodeId \in visitedNodesInPath

\* The guard of page.tsx:84.
Refused(startNodeId, currentDepth, maxDepth, visitedNodesInPath) ==
    currentDepth > maxDepth \/ startNodeId \in visitedNodesInPath

CollectLinkWhenEntered(collectedLinkIds, link, currentDepth, maxDepth) ==
    IF currentDepth + 1 <= maxDepth THEN collectedLinkIds \cup {link.id} ELSE collectedLinkIds

\* collectedLinkIds.add(link.id), page.tsx:104, in a call at currentDepth.
CollectLink(collectedLinkIds, link, currentDepth, maxDepth) ==
    collectedLinkIds \cup {link.id}

RECURSIVE traverseGraph(_, _, _, _, _, _, _)
RECURSIVE traverseLinks(_, _, _, _, _, _, _, _, _)

traverseGraph(startNodeId, currentDepth, maxDepth, allNodes, allLinks, visitedNodesInPath, acc) ==
    IF Refused(startNodeId, currentDepth, maxDepth, visitedNodesInPath)
    THEN acc
    ELSE IF FindIdx(allNodes, startNodeId) = 0
    THEN acc
    ELSE IF startNodeId \in Range(acc.collectedNodes)
    THEN traverseLinks(relatedLinks(allLinks, startNodeId), 1, startNodeId, currentDepth,
                       maxDepth, allNodes, allLinks,
                       visitedNodesInPath \cup {startNodeId}, acc)
    ELSE traverseLinks(relatedLinks(allLinks, startNodeId), 1, startNodeId, currentDepth,
                       maxDepth, allNodes, allLinks,
                       visitedNodesInPath \cup {startNodeId},
                       [acc EXCEPT !.collectedNodes = MapSet(@, startNodeId)])

traverseLinks(related, i, startNodeId, currentDepth, maxDepth, allNodes, allLinks, visitedNodesInPath, acc) ==
    IF i > Len(related)
    THEN acc
    ELSE IF FindIdx(allNodes, NeighborId(related[i], startNodeId)) = 0
    THEN traverseLinks(related, i + 1, startNodeId, currentDepth, maxDepth,
                       allNodes, allLinks, visitedNodesInPath, acc)
    ELSE IF related[i].id \in acc.collectedLinkIds
    THEN traverseLinks(related, i + 1, startNodeId, currentDepth, maxDepth,
                       allNodes, allLinks, visitedNodesInPath,
                       traverseGraph(NeighborId(related[i], startNodeId), currentDepth + 1,
                                     maxDepth, allNodes, allLinks, visitedNodesInPath, acc))
    ELSE traverseLinks(related, i + 1, startNodeId, currentDepth, maxDepth,
                       allNodes, allLinks, visitedNodesInPath,
                       traverseGraph(NeighborId(related[i], startNodeId), currentDepth + 1,
                                     maxDepth, allNodes, allLinks, visitedNodesInPath,
                                     [acc EXCEPT !.collectedLinkIds =
                                         CollectLink(@, related[i], currentDepth, maxDepth)]))

(***************************************************************************)
(* filteredNodesAndLinks, page.tsx:888-946.                                *)
(***************************************************************************)
\* nodes.filter(...) of page.tsx:896-919; content is absent on every node.
NodeMatches(node, terms, filterTags) ==
    LET matchesSelectedTags ==
            IF filterTags # {} THEN node.tags \cap filterTags # {} ELSE TRUE
        matchesSearchTerms ==
            IF Len(terms) > 0
            THEN \A k \in 1..Len(terms) :
                    \/ Includes(node.title, terms[k])
                    \/ \E tag \in node.tags : Includes(tag, terms[k])
            ELSE TRUE
    IN  IF filterTags # {} /\ Len(terms) > 0 THEN matchesSelectedTags /\ matchesSearchTerms
        ELSE IF filterTags # {} THEN matchesSelectedTags
        ELSE IF Len(terms) > 0 THEN matchesSearchTerms
        ELSE FALSE

matchedInitialNodes(ns, terms, filterTags) ==
    SelectSeq(ns, LAMBDA n : NodeMatches(n, terms, filterTags))

EmptyAcc == [collectedNodes |-> <<>>, collectedLinkIds |-> {}]

RECURSIVE CollectFrom(_, _, _, _, _, _)
\* matchedInitialNodes.forEach(startNode => traverseGraph(startNode.id, 0, ...))
CollectFrom(matched, i, depth, ns, ls, acc) ==
    IF i > Len(matched) THEN acc
    ELSE CollectFrom(matched, i + 1, depth, ns, ls,
                     traverseGraph(matched[i].id, 0, depth, ns, ls, {}, acc))

filteredNodesAndLinks(ns, ls, terms, filterTags, depth) ==
    IF Len(terms) = 0 /\ filterTags = {}
    THEN [displayNodes |-> ns, displayLinks |-> ls]
    ELSE LET matched == matchedInitialNodes(ns, terms, filterTags)
         IN  IF Len(matched) = 0
             THEN [displayNodes |-> <<>>, displayLinks |-> <<>>]
             ELSE LET acc == CollectFrom(matched, 1, depth, ns, ls, EmptyAcc)
                      order == acc.collectedNodes
                  IN  [displayNodes |-> [k \in 1..Len(order) |-> ns[FindIdx(ns, order[k])]],
                       displayLinks |->
                           SelectSeq(ls, LAMBDA l :
                               /\ l.id \in acc.collectedLinkIds
                               /\ l.sourceNodeId \in Range(order)
                               /\ l.targetNodeId \in Range(order))]

(***************************************************************************)
(* applyHierarchicalLayout, page.tsx:1004-1268.  L is nodesToLayout, K is  *)
(* linksToConsider.                                                        *)
(***************************************************************************)
DEFAULT_NODE_WIDTH == 256
DEFAULT_NODE_HEIGHT == 160
HORIZONTAL_SPACING == 100
VERTICAL_SPACING == 60
PAGE_MARGIN_X == 50
PAGE_MARGIN_Y == 50

\* The function f with every value computed.
Frozen(f) == f @@ <<>>

\* The links that pass the layoutNodesMap.has test of page.tsx:1030.
LayoutLinks(L, K) ==
    LET ids == NodeIdSet(L)
    IN  SelectSeq(K, LAMBDA l : l.sourceNodeId \in ids /\ l.targetNodeId \in ids)

Targets(ls, u) ==
    LET out == SelectSeq(ls, LAMBDA l : l.sourceNodeId = u)
    IN  SelectSeq([k \in 1..Len(out) |-> out[k].targetNodeId], LAMBDA v : TRUE)

Sources(ls, u) ==
    LET into == SelectSeq(ls, LAMBDA l : l.targetNodeId = u)
    IN  SelectSeq([k \in 1..Len(into) |-> into[k].sourceNodeId], LAMBDA v : TRUE)

\* layoutNodesMap, adj, revAdj, inDegree and outDegree as page.tsx:1015-1036
\* build them: order is the iteration order of layoutNodesMap, adj[u] the
\* targets of u's links and revAdj[u] the sources of the links into u, in link
\* order.
GraphIndex(L, K) ==
    LET ids == NodeIdSet(L)
        kept == LayoutLinks(L, K)
        adj == Frozen([u \in ids |-> Targets(kept, u)])
        revAdj == Frozen([u \in ids |-> Sources(kept, u)])
    IN  [order |-> SelectSeq([k \in 1..Len(L) |-> L[k].id], LAMBDA v : TRUE),
         node |-> Frozen([u \in ids |-> L[FindIdx(L, u)]]),
         adj |-> adj,
         revAdj |-> revAdj,
         inDegree |-> Frozen([u \in ids |-> Len(revAdj[u])]),
         outDegree |-> Frozen([u \in ids |-> Len(adj[u])])]

\* rootNodes / the initial qForTopo: the nodes of in-degree 0, in node order
\* (page.tsx:1039-1041, 1092-1094).
rootNodes(G) == SelectSeq(G.order, LAMBDA u : JsOr(G.inDegree[u], 0) = 0)

RECURSIVE KahnEdges(_, _, _)
\* The forEach over adj.get(u_id) of page.tsx:1047-1054.
KahnEdges(vs, i, st) ==
    IF i > Len(vs) THEN st
    ELSE LET v == vs[i]
             temp == [st.tempInDegree EXCEPT ![v] = JsOr(@, 1) - 1]
         IN  KahnEdges(vs, i + 1,
                 [tempInDegree |-> temp,
                  qForTopo |-> IF JsOr(temp[v], 0) = 0
                               THEN Append(st.qForTopo, v) ELSE st.qForTopo])

RECURSIVE KahnLoop(_, _, _, _)
\* while (headTopo < qForTopo.length), page.tsx:1044-1055.
KahnLoop(G, st, headTopo, topo) ==
    IF headTopo > Len(st.qForTopo) THEN topo
    ELSE LET u == st.qForTopo[headTopo]
         IN  KahnLoop(G, KahnEdges(G.adj[u], 1, st), headTopo + 1, Append(topo, u))

topoOrder(G) ==
    KahnLoop(G, [tempInDegree |-> G.inDegree, qForTopo |-> rootNodes(G)], 1, <<>>)

ChildLayerMin(m, childLayer) == IF m = -1 THEN childLayer ELSE Min2(m, childLayer)

\* Math.max(maxChildLayerRTL, layerRTL.get(v_id) || 0), page.tsx:1070.
ChildLayerMax(m, childLayer) == Max2(m, childLayer)

RECURSIVE MaxChildLayer(_, _, _, _)
MaxChildLayer(vs, i, layer, m) ==
    IF i > Len(vs) THEN m
    ELSE MaxChildLayer(vs, i + 1, layer, ChildLayerMax(m, JsOr(layer[vs[i]], 0)))

LayerBeside(maxChildLayerRTL) == IF maxChildLayerRTL = -1 THEN 0 ELSE maxChildLayerRTL

\* (maxChildLayerRTL === -1 ? -1 : maxChildLayerRTL) + 1, page.tsx:1073.
LayerAbove(maxChildLayerRTL) == (IF maxChildLayerRTL = -1 THEN -1 ELSE maxChildLayerRTL) + 1

RECURSIVE LayerLoop(_, _, _, _)
\* for (let i = topoOrder.length - 1; i >= 0; i--), page.tsx:1060-1075.
LayerLoop(G, topo, i, layer) ==
    IF i < 1 THEN layer
    ELSE LET u == topo[i]
             maxChildLayerRTL == MaxChildLayer(G.adj[u], 1, layer, -1)
             value ==
                 IF JsOr(G.outDegree[u], 0) = 0 THEN 0
                 ELSE LayerAbove(maxChildLayerRTL)
         IN  LayerLoop(G, topo, i - 1, [layer EXCEPT ![u] = value])

\* layerRTL after the loop, page.tsx:1057-1075.
layerRTL(G) ==
    LET topo == topoOrder(G)
    IN  LayerLoop(G, topo, Len(topo), Frozen([u \in DOMAIN G.node |-> 0]))

RECURSIVE SetMax(_)
SetMax(S) ==
    IF S = {} THEN 0
    ELSE LET e == CHOOSE e \in S : TRUE IN Max2(e, SetMax(S \ {e}))

RECURSIVE SetMin(_)
SetMin(S) ==
    LET e == CHOOSE e \in S : TRUE
    IN  IF S = {e} THEN e ELSE Min2(e, SetMin(S \ {e}))

MaxLayerNone(layer) == 0

\* let maxLayerRTL = 0; layerRTL.forEach(...), page.tsx:1077-1078.
maxLayerRTL(layer) == SetMax({layer[u] : u \in DOMAIN layer})

ColumnLeftToRight(maxLayer, rtl) == rtl

\* maxLayerRTL - rtl, page.tsx:1128, 1167, 1185-1186.
visualColumnIndex(maxLayer, rtl) == maxLayer - rtl

\* The column of every node.
Columns(layer) ==
    LET maxLayer == maxLayerRTL(layer)
    IN  Frozen([u \in DOMAIN layer |-> visualColumnIndex(maxLayer, JsOr(layer[u], 0))])

(***************************************************************************)
(* Grouping (getFullGroup, nodeGroups) and placement, page.tsx:1089-1250.  *)
(***************************************************************************)
\* a sorts before b: the first differing component of the keys is smaller in a.
LexLess(ka, kb) ==
    \E i \in 1..Len(ka) : ka[i] < kb[i] /\ \A j \in 1..(i - 1) : ka[j] = kb[j]

RECURSIVE InsertSorted(_, _, _)
InsertSorted(sorted, e, i) ==
    IF i > Len(sorted) THEN Append(sorted, e)
    ELSE IF LexLess(e.key, sorted[i].key)
         THEN SubSeq(sorted, 1, i - 1) \o <<e>> \o SubSeq(sorted, i, Len(sorted))
         ELSE InsertSorted(sorted, e, i + 1)

RECURSIVE SortFrom(_, _, _)
SortFrom(s, i, sorted) ==
    IF i > Len(s) THEN sorted
    ELSE SortFrom(s, i + 1, InsertSorted(sorted, s[i], 1))

\* Array.prototype.sort with a comparator that compares the components of Key in
\* turn: a stable sort.
JsSort(s, Key(_)) ==
    LET keyed == SortFrom([k \in 1..Len(s) |-> [key |-> Key(s[k]), val |-> s[k]]], 1, <<>>)
    IN  [k \in 1..Len(keyed) |-> keyed[k].val]

\* visitedForGrouping.has(startNodeId) || currentGroup.has(startNodeId), page.tsx:1099.
AlreadyGrouped(startNodeId, visitedForGrouping, currentGroup) ==
    startNodeId \in visitedForGrouping \/ startNodeId \in Range(currentGroup)

RECURSIVE getFullGroup(_, _, _)
RECURSIVE getFullGroupEach(_, _, _, _)

\* st.visitedForGrouping is the Set shared by all calls, st.currentGroup the Set
\* of this group, in insertion order.  page.tsx:1098-1118.
getFullGroup(G, startNodeId, st) ==
    IF AlreadyGrouped(startNodeId, st.visitedForGrouping, st.currentGroup)
    THEN st
    ELSE getFullGroupEach(G, G.adj[startNodeId] \o G.revAdj[startNodeId], 1,
             [visitedForGrouping |-> st.visitedForGrouping \cup {startNodeId},
              currentGroup |-> Append(st.currentGroup, startNodeId)])

getFullGroupEach(G, ids, i, st) ==
    IF i > Len(ids) THEN st
    ELSE getFullGroupEach(G, ids, i + 1, getFullGroup(G, ids[i], st))

\* The comparator of page.tsx:1127-1135 and 1148-1155: column, then existing y.
GroupKey(G, col, a) == <<col[a], JsOr(G.node[a].y, 0)>>

sortedGroup(G, col, group) == JsSort(group, LAMBDA a : GroupKey(G, col, a))

RECURSIVE GroupsFrom(_, _, _, _, _, _)
\* rootNodes.forEach(...) and layoutNodesMap.forEach(...), page.tsx:1120-1160:
\* starts is the sequence of start nodes tried, in order.
GroupsFrom(G, col, starts, i, visited, groups) ==
    IF i > Len(starts) THEN groups
    ELSE IF starts[i] \in visited
         THEN GroupsFrom(G, col, starts, i + 1, visited, groups)
         ELSE LET st == getFullGroup(G, starts[i],
                            [visitedForGrouping |-> visited, currentGroup |-> <<>>])
              IN  GroupsFrom(G, col, starts, i + 1, st.visitedForGrouping,
                      IF Len(st.currentGroup) > 0
                      THEN Append(groups, sortedGroup(G, col, st.currentGroup))
                      ELSE groups)

GroupColumns(col, group) == {col[group[k]] : k \in 1..Len(group)}

\* Math.min(...group.map(id => layoutNodesMap.get(id)?.y || Infinity)): the set of
\* the finite operands; the minimum is Infinity when it is empty.
FiniteYs(G, group) == {G.node[group[k]].y : k \in 1..Len(group)} \ {0}

NodeGroupsKeyDescending(G, col, group) ==
    <<SetMin(GroupColumns(col, group)), 0, 0 - SetMax(FiniteYs(G, group) \cup {0})>>

\* The comparator of nodeGroups.sort, page.tsx:1165-1173: minimum column, then
\* minimum y.  Infinity sorts after every finite y, and Infinity - Infinity is
\* NaN, which sort takes as 0.
NodeGroupsKey(G, col, group) ==
    LET ys == FiniteYs(G, group)
    IN  <<SetMin(GroupColumns(col, group)),
          IF ys = {} THEN 1 ELSE 0,
          IF ys = {} THEN 0 ELSE SetMin(ys)>>

nodeGroups(G, col) ==
    LET unsorted == GroupsFrom(G, col, rootNodes(G) \o G.order, 1, {}, <<>>)
    IN  JsSort(unsorted, LAMBDA g : NodeGroupsKey(G, col, g))

\* a.title.localeCompare(b.title) < 0 on the one-letter titles.
TitleRank == [a |-> 1, b |-> 2, c |-> 3, d |-> 4]

\* The comparator of nodesInColumn.sort, page.tsx:1203-1208: in-degree, then title.
ColumnKey(G, a) == <<JsOr(G.inDegree[a], 0), TitleRank[G.node[a].title]>>

\* nodesByVisualColumnInGroup.get(c), sorted: page.tsx:1181-1208.
nodesInColumn(G, col, group, c) ==
    JsSort(SelectSeq(group, LAMBDA id : col[id] = c), LAMBDA a : ColumnKey(G, a))

NodeHeightDefault(G, id) == DEFAULT_NODE_HEIGHT

\* node.height || DEFAULT_NODE_HEIGHT, page.tsx:1211, 1229.
NodeHeight(G, id) == JsOr(G.node[id].height, DEFAULT_NODE_HEIGHT)

RECURSIVE ColumnExtent(_, _, _)
\* currentYInColumn after the forEach of page.tsx:1210-1214.
ColumnExtent(G, ids, i) ==
    IF i > Len(ids) THEN 0
    ELSE NodeHeight(G, ids[i]) + VERTICAL_SPACING + ColumnExtent(G, ids, i + 1)

RECURSIVE PlaceColumn(_, _, _, _, _, _)
\* nodesInColumn.forEach(node => newPositionsMap.set(...)), page.tsx:1227-1230.
PlaceColumn(G, ids, i, x, currentY, log) ==
    IF i > Len(ids) THEN log
    ELSE PlaceColumn(G, ids, i + 1, x, currentY + NodeHeight(G, ids[i]) + VERTICAL_SPACING,
                     Append(log, [id |-> ids[i], x |-> x, y |-> currentY]))

\* page.tsx:1224.
layerX(visualColKey) == PAGE_MARGIN_X + visualColKey * (DEFAULT_NODE_WIDTH + HORIZONTAL_SPACING)

RECURSIVE PlaceGroupColumns(_, _, _, _, _, _)
\* The columns of one group in ascending order, page.tsx:1200-1232: returns the
\* writes and groupHeight.
PlaceGroupColumns(G, col, group, cols, startYForGroup, acc) ==
    IF cols = {} THEN acc
    ELSE LET c == SetMin(cols)
             ids == nodesInColumn(G, col, group, c)
         IN  PlaceGroupColumns(G, col, group, cols \ {c}, startYForGroup,
                 [log |-> PlaceColumn(G, ids, 1, layerX(c), startYForGroup, acc.log),
                  groupHeight |-> Max2(acc.groupHeight,
                                       ColumnExtent(G, ids, 1) - VERTICAL_SPACING)])

RECURSIVE PlaceGroups(_, _, _, _, _, _)
\* nodeGroups.forEach(group => ...), page.tsx:1178-1234; returns the writes and
\* the final currentGlobalMaxY.
PlaceGroups(G, col, groups, i, currentGlobalMaxY, log) ==
    IF i > Len(groups) THEN [log |-> log, currentGlobalMaxY |-> currentGlobalMaxY]
    ELSE LET placed == PlaceGroupColumns(G, col, groups[i], GroupColumns(col, groups[i]),
                                         currentGlobalMaxY, [log |-> log, groupHeight |-> 0])
         IN  PlaceGroups(G, col, groups, i + 1,
                         currentGlobalMaxY + placed.groupHeight + VERTICAL_SPACING * 2,
                         placed.log)

UnpositionedAlways(id, positionedNodeIds) == TRUE

\* !positionedNodeIds.has(node.id), page.tsx:1245.
Unpositioned(id, positionedNodeIds) == id \notin positionedNodeIds

RECURSIVE PlaceUnpositioned(_, _, _, _, _)
\* The fallback bucket, page.tsx:1236-1250.
PlaceUnpositioned(L, i, unPositionedColumnX, unPositionY, log) ==
    IF i > Len(L) THEN log
    ELSE IF ~Unpositioned(L[i].id, {log[k].id : k \in 1..Len(log)})
         THEN PlaceUnpositioned(L, i + 1, unPositionedColumnX, unPositionY, log)
         ELSE PlaceUnpositioned(L, i + 1, unPositionedColumnX,
                  unPositionY + JsOr(L[i].height, DEFAULT_NODE_HEIGHT) + VERTICAL_SPACING,
                  Append(log, [id |-> L[i].id, x |-> unPositionedColumnX, y |-> unPositionY]))

\* Every newPositionsMap.set of one run, in order.
newPositionsLog(L, K) ==
    LET G == GraphIndex(L, K)
        col == Columns(layerRTL(G))
        groups == nodeGroups(G, col)
        placed == PlaceGroups(G, col, groups, 1, PAGE_MARGIN_Y, <<>>)
        positionedNodeIds == {placed.log[k].id : k \in 1..Len(placed.log)}
        effectiveMaxVisualColumn == 0
        unPositionedColumnX ==
            IF Len(L) = Cardinality(positionedNodeIds) /\ Len(groups) = 0
            THEN PAGE_MARGIN_X
            ELSE layerX(effectiveMaxVisualColumn + 1)
    IN  PlaceUnpositioned(L, 1, unPositionedColumnX, placed.currentGlobalMaxY, placed.log)

\* newPositionsMap.get(id): the last write for id, index 0 if there is none.
LastWrite(log, id) ==
    IF \E k \in 1..Len(log) : log[k].id = id
    THEN CHOOSE k \in 1..Len(log) : log[k].id = id /\ \A j \in (k + 1)..Len(log) : log[j].id # id
    ELSE 0

\* setNodes(prevNodes => prevNodes.map(...)), page.tsx:1252-1263.
WithPositions(prevNodes, log) ==
    [k \in 1..Len(prevNodes) |->
        LET w == LastWrite(log, prevNodes[k].id)
        IN  IF w # 0 THEN [prevNodes[k] EXCEPT !.x = log[w].x * Unit, !.y = log[w].y * Unit]
            ELSE prevNodes[k]]

\* applyHierarchicalLayout as a whole: the writes it makes, given the store and
\* the filter it runs under.  No node visible: it returns before any write.
hierarchicalWrites(ns, ls, input, filterTags, depth) ==
    LET shown == filteredNodesAndLinks(ns, ls, SplitTerms(input), filterTags, depth)
    IN  IF Len(shown.displayNodes) = 0 THEN <<>>
        ELSE newPositionsLog(shown.displayNodes, shown.displayLinks)

(***************************************************************************)
(* applyForceDirectedLayout, page.tsx:1271-1409.  The simulation works on  *)
(* currentNodes, its own copies of the displayed nodes, which simulate     *)
(* updates in place, one node after the other.  Distances are taken in     *)
(* tenths of a pixel, forces and velocities in thousandths.                *)
(***************************************************************************)
FORCE_DIRECTED_ITERATIONS == 150
K_REPEL == 30000
\* 0.04, in hundredths.
K_SPRING == 4
DEFAULT_LINK_DISTANCE == 250
\* 0.9, in tenths.
DAMPING_FACTOR == 9
\* 0.1, in thousandths.
MIN_DISPLACEMENT == 100
\* iteration > 30, page.tsx:1397.
WARM_UP_ITERATIONS == 30

Abs(a) == IF a < 0 THEN -a ELSE a

\* a / b rounded towards zero, b > 0.
TDiv(a, b) == IF a >= 0 THEN a \div b ELSE -((-a) \div b)

RECURSIVE SqrtBetween(_, _, _)
SqrtBetween(n, lo, hi) ==
    IF lo >= hi THEN lo
    ELSE LET mid == (lo + hi + 1) \div 2
         IN  IF mid * mid <= n THEN SqrtBetween(n, mid, hi) ELSE SqrtBetween(n, lo, mid - 1)

\* Math.sqrt, rounded down.
Sqrt(n) == SqrtBetween(n, 0, 46340)

\* Math.sqrt(a * a + b * b) of two lengths in thousandths.
Hypot(a, b) ==
    IF Abs(a) <= 30000 /\ Abs(b) <= 30000 THEN Sqrt(a * a + b * b)
    ELSE Sqrt(TDiv(a, 100) * TDiv(a, 100) + TDiv(b, 100) * TDiv(b, 100)) * 100

Pinned(n) == n.fx # <<>> /\ n.fy # <<>>

\* A repulsion that pushes a node off a node at the same place, along x.
RepulsionApart(node1, node2) ==
    IF node1.x = node2.x /\ node1.y = node2.y
    THEN <<Unit, 0>>
    ELSE <<0, 0>>

\* The repulsion of node2 on node1, page.tsx:1330-1340, as <<forceX, forceY>>.
Repulsion(node1, node2) ==
    LET dx == TDiv(node1.x - node2.x, 100)
        dy == TDiv(node1.y - node2.y, 100)
        squared == dx * dx + dy * dy
        \* if (distanceSquared < 0.1) distanceSquared = 0.1
        distanceSquared == IF squared < 10 THEN 10 ELSE squared
        distance == Sqrt(distanceSquared)
        repelForce == TDiv(K_REPEL * 50000, distanceSquared) * 2
    IN  <<TDiv(dx * repelForce, distance), TDiv(dy * repelForce, distance)>>

\* The spring of one link between node1 and node2, page.tsx:1350-1360.
Spring(node1, node2) ==
    LET dx == TDiv(node2.x - node1.x, 100)
        dy == TDiv(node2.y - node1.y, 100)
        distance == Sqrt(dx * dx + dy * dy)
        displacement == distance - DEFAULT_LINK_DISTANCE * 10
        springForce == K_SPRING * displacement
    IN  IF distance > 0
        THEN <<TDiv(dx * springForce, distance), TDiv(dy * springForce, distance)>>
        ELSE <<0, 0>>

RECURSIVE SumForces(_, _)
SumForces(fs, i) ==
    IF i > Len(fs) THEN <<0, 0>>
    ELSE LET rest == SumForces(fs, i + 1) IN <<fs[i][1] + rest[1], fs[i][2] + rest[2]>>

RepelsNotPinned(node1, node2) == node1.id # node2.id /\ ~Pinned(node2)

\* currentNodes.forEach(node2 => { if (node1.id === node2.id) return; ... }).
Repels(node1, node2) == node1.id # node2.id

\* The force on node1 from every other node, page.tsx:1329-1340.
RepulsionOn(currentNodes, node1) ==
    SumForces([k \in 1..Len(currentNodes) |->
                  IF Repels(node1, currentNodes[k]) THEN Repulsion(node1, currentNodes[k])
                  ELSE <<0, 0>>], 1)

\* The force on node1 from the links it is an end of, page.tsx:1343-1362.  The
\* other end of a self-loop is node1 itself, at distance 0.
SpringsOn(currentNodes, linksToConsider, node1) ==
    SumForces([k \in 1..Len(linksToConsider) |->
                  LET link == linksToConsider[k]
                      otherNodeId == IF link.sourceNodeId = node1.id THEN <<link.targetNodeId>>
                                     ELSE IF link.targetNodeId = node1.id THEN <<link.sourceNodeId>>
                                     ELSE <<>>
                  IN  IF otherNodeId # <<>> /\ FindIdx(currentNodes, otherNodeId[1]) # 0
                      THEN Spring(node1, currentNodes[FindIdx(currentNodes, otherNodeId[1])])
                      ELSE <<0, 0>>], 1)

ClampNever(coordinate, velocity) == <<coordinate, velocity>>

\* if (node1.x < 0) { node1.x = 0; node1.vx *= -0.5; }, page.tsx:1379-1380.
Clamp(coordinate, velocity) ==
    IF coordinate < 0 THEN <<0, -TDiv(velocity, 2)>> ELSE <<coordinate, velocity>>

\* The new velocity and position of a free node under the forces repel and
\* spring, page.tsx:1365-1388: the node afterwards, and what it adds to
\* totalDisplacement.
Advance(node1, repel, spring) ==
    LET vx == TDiv(node1.vx + repel[1] + spring[1], 10) * DAMPING_FACTOR
        vy == TDiv(node1.vy + repel[2] + spring[2], 10) * DAMPING_FACTOR
        cx == Clamp(node1.x + vx, vx)
        cy == Clamp(node1.y + vy, vy)
    IN  [node |-> [node1 EXCEPT !.x = cx[1], !.y = cy[1], !.vx = cx[2], !.vy = cy[2]],
         displacement |-> Hypot(cx[1] - node1.x, cy[1] - node1.y)]

\* One node of the forEach of page.tsx:1317-1389.
MoveNode(currentNodes, linksToConsider, node1) ==
    IF Pinned(node1)
    THEN [node |-> [node1 EXCEPT !.x = node1.fx[1], !.y = node1.fy[1]], displacement |-> 0]
    ELSE Advance(node1, RepulsionOn(currentNodes, node1),
                 SpringsOn(currentNodes, linksToConsider, node1))

\* The i-th node was mutated in place and its displacement was added.
Accumulate(acc, i, moved) ==
    [currentNodes |-> [acc.currentNodes EXCEPT ![i] = moved.node],
     totalDisplacement |-> acc.totalDisplacement + moved.displacement]

RECURSIVE MoveNodes(_, _, _)
\* currentNodes.forEach(node1 => ...) from the i-th node on: each node sees the
\* nodes before it moved.  acc is currentNodes with totalDisplacement.
MoveNodes(acc, linksToConsider, i) ==
    IF i > Len(acc.currentNodes) THEN acc
    ELSE MoveNodes(Accumulate(acc, i, MoveNode(acc.currentNodes, linksToConsider,
                                               acc.currentNodes[i])),
                   linksToConsider, i + 1)

(***************************************************************************)
(* The state machine.  Every handler ends with the re-render that          *)
(* recomputes the filteredNodesAndLinks memo from the state it leaves.     *)
(***************************************************************************)
NoWalk == [pc |-> "idle"]

\* forceLayoutRef (page.tsx:161): animationFrameId is the handle of the ref, 0
\* for null; requested counts the handles the browser gave out, started and
\* cancelled the simulations started and the frames cancelled; stoppedAfter is
\* the number of physics steps of the simulation that last stopped by itself;
\* saved is the updateNodePosition calls that simulate made, in order.
NoForce == [animationFrameId |-> 0, requested |-> 0, started |-> 0, cancelled |-> 0,
            stoppedAfter |-> 0, saved |-> <<>>]

NoMemo == [displayNodes |-> <<>>, displayLinks |-> <<>>]

Render ==
    memo' = filteredNodesAndLinks(nodes', links', SplitTerms(searchTerm'),
                                  selectedFilterTags', searchDepth')

Init ==
    /\ nodes = <<>>
    /\ links = <<>>
    /\ searchTerm = <<>>
    /\ searchDepth = 1
    /\ selectedFilterTags = {}
    /\ layoutAlgorithm = "hierarchical"
    /\ loaded = FALSE
    /\ issuedNodes = 0
    /\ issuedLinks = 0
    /\ memo = NoMemo
    /\ positionLog = <<>>
    /\ lastOp = "init"
    /\ walk = NoWalk
    /\ force = NoForce
    /\ frames = {}
    /\ events = 0

\* The mount effect loadData, page.tsx:250-284, when the database holds the
\* first count nodes of the catalogue, with the stored y of each, and the links
\* stored between them.  db:deleteNode deletes a node's links with it
\* (electron/main.js:113-116), so no stored link dangles.
loadData(count, stored, ys) ==
    /\ ~loaded
    /\ loaded' = TRUE
    /\ nodes' = [k \in 1..count |-> NewNode(NodeIds[k], 0, ys[k])]
    /\ links' = stored
    /\ issuedNodes' = count
    /\ issuedLinks' = Len(stored)
    /\ lastOp' = "loadData"
    /\ UNCHANGED <<searchTerm, searchDepth, selectedFilterTags, layoutAlgorithm,
                   positionLog, walk, force, frames, events>>
    /\ Render

\* forceLayoutRef together with the frames the browser holds: each frame is a
\* callback requested and neither run nor cancelled, the simulate closure of one
\* applyForceDirectedLayout call.
Pending ==
    [animationFrameId |-> force.animationFrameId, frames |-> frames,
     requested |-> force.requested, started |-> force.started,
     cancelled |-> force.cancelled, stoppedAfter |-> force.stoppedAfter,
     saved |-> force.saved]

\* What a handler leaves in forceLayoutRef and in the browser.
Schedule(f) ==
    /\ force' = [animationFrameId |-> f.animationFrameId, requested |-> f.requested,
                 started |-> f.started, cancelled |-> f.cancelled,
                 stoppedAfter |-> f.stoppedAfter, saved |-> f.saved]
    /\ frames' = f.frames

CancelNothing(f) == [f EXCEPT !.animationFrameId = 0]

\* if (forceLayoutRef.current.animationFrameId) { cancelAnimationFrame(...); ... = null },
\* page.tsx:1283-1286 and 1418-1421.
CancelFrame(f) ==
    IF f.animationFrameId # 0
    THEN [f EXCEPT !.frames = {c \in @ : c.handle # f.animationFrameId},
                   !.cancelled = @ + Cardinality({c \in f.frames : c.handle = f.animationFrameId}),
                   !.animationFrameId = 0]
    ELSE f

\* forceLayoutRef.current.animationFrameId = requestAnimationFrame(simulate).
RequestFrame(f, sim) ==
    [f EXCEPT !.requested = @ + 1,
              !.frames = @ \cup {[handle |-> f.requested + 1, sim |-> sim]},
              !.animationFrameId = f.requested + 1]

\* { ...n, fx: null, fy: null, vx: 0, vy: 0 }, page.tsx:1424.
ResetTransient(n) == [n EXCEPT !.fx = <<>>, !.fy = <<>>, !.vx = 0, !.vy = 0]

\* applyForceDirectedLayout up to its first requestAnimationFrame,
\* page.tsx:1271-1295 and 1407, over the displayed nodes and links of the render
\* it was created in.  steps, belowRun and convergedAt record, for the
\* properties, the physics steps made, the steps in a row that ended below the
\* threshold, and the step at which the simulation was found converged.
\* nodesToLayout is the nodes of that render that the simulation copied.
applyForceDirectedLayout(f, shown) ==
    IF Len(shown.displayNodes) = 0 THEN f
    ELSE RequestFrame([CancelFrame(f) EXCEPT !.started = @ + 1],
                      [no |-> f.started + 1,
                       nodesToLayout |-> shown.displayNodes,
                       currentNodes |-> shown.displayNodes,
                       linksToConsider |-> shown.displayLinks,
                       iteration |-> 0, steps |-> 0, belowRun |-> 0, convergedAt |-> 0])

\* applyCurrentLayout, page.tsx:1416-1432, in the render that has the algorithm
\* and the filter (input, filterTags, depth).  The reset of page.tsx:1424 and the
\* positions of the hierarchical layout are queued updates of the store; the
\* simulation copies the nodes of the render, as they were before the reset.
applyLayoutUnder(algorithm, input, filterTags, depth) ==
    LET log == hierarchicalWrites(nodes, links, input, filterTags, depth)
        shown == filteredNodesAndLinks(nodes, links, SplitTerms(input), filterTags, depth)
        reset == [k \in 1..Len(nodes) |-> ResetTransient(nodes[k])]
    IN  IF algorithm = "hierarchical"
        THEN /\ nodes' = WithPositions(reset, log)
             /\ positionLog' = log
             /\ Schedule(CancelFrame(Pending))
        ELSE /\ nodes' = reset
             /\ positionLog' = positionLog
             /\ Schedule(applyForceDirectedLayout(CancelFrame(Pending), shown))

\* The layout button: applyCurrentLayout(false).
applyCurrentLayout ==
    /\ loaded
    /\ applyLayoutUnder(layoutAlgorithm, searchTerm, selectedFilterTags, searchDepth)
    /\ lastOp' = "applyCurrentLayout"
    /\ UNCHANGED <<links, searchTerm, searchDepth, selectedFilterTags, layoutAlgorithm,
                   loaded, issuedNodes, issuedLinks, walk>>
    /\ Render

\* onSearch={setSearchTerm}, page.tsx:1631, and the effect of page.tsx:1434-1446
\* that re-applies the layout when the search term changes.
setSearchTerm(input) ==
    /\ loaded
    /\ input # searchTerm
    /\ searchTerm' = input
    /\ applyLayoutUnder(layoutAlgorithm, input, selectedFilterTags, searchDepth)
    /\ lastOp' = "setSearchTerm"
    /\ UNCHANGED <<links, searchDepth, selectedFilterTags, layoutAlgorithm, loaded,
                   issuedNodes, issuedLinks, walk>>
    /\ Render

\* handleDepthChange, page.tsx:1411-1413, and the same effect.
handleDepthChange(depth) ==
    /\ loaded
    /\ depth # searchDepth
    /\ searchDepth' = depth
    /\ applyLayoutUnder(layoutAlgorithm, searchTerm, selectedFilterTags, depth)
    /\ lastOp' = "handleDepthChange"
    /\ UNCHANGED <<links, searchTerm, selectedFilterTags, layoutAlgorithm, loaded,
                   issuedNodes, issuedLinks, walk>>
    /\ Render

\* handleFilterTagToggle, page.tsx:306-312, and the same effect.
handleFilterTagToggle(tag) ==
    /\ loaded
    /\ selectedFilterTags' =
           IF tag \in selectedFilterTags THEN selectedFilterTags \ {tag}
           ELSE selectedFilterTags \cup {tag}
    /\ applyLayoutUnder(layoutAlgorithm, searchTerm, selectedFilterTags', searchDepth)
    /\ lastOp' = "handleFilterTagToggle"
    /\ UNCHANGED <<links, searchTerm, searchDepth, layoutAlgorithm, loaded,
                   issuedNodes, issuedLinks, walk>>
    /\ Render

\* handleConfirmDelete, page.tsx:1496-1533, on the selection the user clicked
\* together in delete mode (handleNodeClick, handleLinkClick): nodes are dropped
\* by id, links only when selected themselves.
handleConfirmDelete(selNodes, selLinks) ==
    /\ loaded
    /\ issuedNodes - Len(nodes) + Cardinality(selNodes) <= MaxDeletes
    /\ selNodes # {} \/ selLinks # {}
    /\ nodes' = SelectSeq(nodes, LAMBDA n : n.id \notin selNodes)
    /\ links' = SelectSeq(links, LAMBDA l : l.id \notin selLinks)
    /\ lastOp' = "handleConfirmDelete"
    /\ UNCHANGED <<searchTerm, searchDepth, selectedFilterTags, layoutAlgorithm,
                   loaded, issuedNodes, issuedLinks, positionLog, walk, force, frames>>
    /\ Render

\* internalAddNode, page.tsx:318-392, for a note dropped at world (worldX, worldY).
internalAddNode(worldX, worldY) ==
    /\ loaded
    /\ issuedNodes < Min2(MaxNodes, Len(NodeIds))
    /\ nodes' = Append(nodes, NewNode(NodeIds[issuedNodes + 1], Max2(0, worldX), Max2(0, worldY)))
    /\ issuedNodes' = issuedNodes + 1
    /\ lastOp' = "internalAddNode"
    /\ UNCHANGED <<links, searchTerm, searchDepth, selectedFilterTags, layoutAlgorithm,
                   loaded, issuedLinks, positionLog, walk, force, frames>>
    /\ Render

\* handleNodeClick in linking mode, page.tsx:719-746: the click on target after
\* source was selected.  A second click on the selected node deselects it, so
\* source and target differ.  Only displayed nodes can be clicked.
handleNodeClickLink(source, target) ==
    /\ loaded
    /\ issuedLinks < MaxNewLinks + 1
    /\ source # target
    /\ {source, target} \subseteq NodeIdSet(memo.displayNodes)
    /\ links' = Append(links, NewLink(issuedLinks + 1, source, target))
    /\ issuedLinks' = issuedLinks + 1
    /\ lastOp' = "handleNodeClickLink"
    /\ UNCHANGED <<nodes, searchTerm, searchDepth, selectedFilterTags, layoutAlgorithm,
                   loaded, issuedNodes, positionLog, walk, force, frames>>
    /\ Render

\* The layout selector, onLayoutAlgorithmChange={setLayoutAlgorithm},
\* page.tsx:1644, and the effect of page.tsx:1434-1446.
setLayoutAlgorithm(algorithm) ==
    /\ loaded
    /\ algorithm # layoutAlgorithm
    /\ layoutAlgorithm' = algorithm
    /\ applyLayoutUnder(algorithm, searchTerm, selectedFilterTags, searchDepth)
    /\ lastOp' = "setLayoutAlgorithm"
    /\ UNCHANGED <<links, searchTerm, searchDepth, selectedFilterTags, loaded,
                   issuedNodes, issuedLinks, walk>>
    /\ Render

\* A mouse move of a drag of a displayed node: mouseMoveHandler,
\* NodeItem.tsx:266-286, which clamps, then handleNodeDrag, page.tsx:1450-1457.
\* Nothing calls handleNodeDragEnd (NodeItem has no onNodeDragEnd), so the pin
\* stays when the drag ends.
handleNodeDrag(nodeId, newX, newY) ==
    /\ loaded
    /\ nodeId \in NodeIdSet(memo.displayNodes)
    /\ nodes' = [k \in 1..Len(nodes) |->
                    IF nodes[k].id = nodeId
                    THEN [nodes[k] EXCEPT !.x = Max2(0, newX), !.y = Max2(0, newY),
                                          !.fx = <<Max2(0, newX)>>, !.fy = <<Max2(0, newY)>>]
                    ELSE nodes[k]]
    /\ lastOp' = "handleNodeDrag"
    /\ UNCHANGED <<links, searchTerm, searchDepth, selectedFilterTags, layoutAlgorithm,
                   loaded, issuedNodes, issuedLinks, positionLog, walk, force, frames>>
    /\ Render

\* mouseUpHandler, NodeItem.tsx:289-291, the mouse released after a move of a
\* drag: setIsDragging(false), a state of NodeItem.  It calls nothing of the
\* page: NodeItem takes no onNodeDragEnd prop, so the handleNodeDragEnd of
\* page.tsx:1461-1478 that KnowledgeCanvas passes down never runs.
mouseUpHandler ==
    /\ loaded
    /\ lastOp = "handleNodeDrag"
    /\ lastOp' = "mouseUpHandler"
    /\ UNCHANGED <<nodes, links, searchTerm, searchDepth, selectedFilterTags, layoutAlgorithm,
                   loaded, issuedNodes, issuedLinks, memo, positionLog, walk, force, frames,
                   events>>

BudgetSpentLate(iteration) == iteration > FORCE_DIRECTED_ITERATIONS

\* if (iteration >= FORCE_DIRECTED_ITERATIONS), page.tsx:1299.
BudgetSpent(iteration) == iteration >= FORCE_DIRECTED_ITERATIONS

\* totalDisplacement / currentNodes.length < MIN_DISPLACEMENT && iteration > 30,
\* page.tsx:1397.
Converged(totalDisplacement, count, iteration) ==
    /\ totalDisplacement < MIN_DISPLACEMENT * count
    /\ iteration > WARM_UP_ITERATIONS

WriteBackAll(prevGlobalNodes, currentNodes) == currentNodes

\* setNodes(prevGlobalNodes => prevGlobalNodes.map(...)), page.tsx:1391-1394.
WriteBack(prevGlobalNodes, currentNodes) ==
    [k \in 1..Len(prevGlobalNodes) |->
        LET gn == prevGlobalNodes[k]
            j == FindIdx(currentNodes, gn.id)
        IN  IF j # 0
            THEN [gn EXCEPT !.x = currentNodes[j].x, !.y = currentNodes[j].y,
                            !.vx = currentNodes[j].vx, !.vy = currentNodes[j].vy]
            ELSE gn]

\* The closure after the nodes moved: iteration++ and the convergence test,
\* page.tsx:1396-1400.
Settle(sim, moved) ==
    LET below == moved.totalDisplacement < MIN_DISPLACEMENT * Len(sim.currentNodes)
        converged == Converged(moved.totalDisplacement, Len(sim.currentNodes),
                               sim.iteration + 1)
    IN  [sim EXCEPT !.currentNodes = moved.currentNodes,
                    !.iteration = IF converged THEN FORCE_DIRECTED_ITERATIONS ELSE @ + 1,
                    !.steps = @ + 1,
                    !.belowRun = IF below THEN @ + 1 ELSE 0,
                    !.convergedAt = IF converged THEN sim.steps + 1 ELSE @]

\* One physics step of a simulation, page.tsx:1316-1400, but for its setNodes.
StepSim(sim) ==
    Settle(sim, MoveNodes([currentNodes |-> sim.currentNodes, totalDisplacement |-> 0],
                          sim.linksToConsider, 1))

\* The updateNodePosition calls of the last frame, page.tsx:1303-1307: one for
\* each node that is not where the nodes of the render have it.  A node of
\* currentNodes is found in these nodes as it is in nodesToLayout.
SavedBy(sim) ==
    LET moved == SelectSeq(sim.currentNodes,
                     LAMBDA n : LET pn == sim.nodesToLayout[FindIdx(sim.nodesToLayout, n.id)]
                                IN  pn.x # n.x \/ pn.y # n.y)
    IN  [k \in 1..Len(moved) |-> [id |-> moved[k].id, x |-> moved[k].x, y |-> moved[k].y]]

SavedInEveryFrame(c) == SavedBy(c.sim)

\* What simulate sends to the database in the frame c: nothing but in the branch
\* of page.tsx:1301.
SavedInFrame(c) == IF BudgetSpent(c.sim.iteration) THEN SavedBy(c.sim) ELSE <<>>

\* forceLayoutRef and the browser once the frame c has fired and simulate has
\* run: the handle is cleared when the budget is spent (page.tsx:1301-1313),
\* and else a frame is requested for the closure after its step (page.tsx:1401).
AfterFrame(c, stepped) ==
    LET fired == [Pending EXCEPT !.frames = @ \ {c}, !.saved = @ \o SavedInFrame(c)]
    IN  IF BudgetSpent(c.sim.iteration)
        THEN [fired EXCEPT !.animationFrameId = 0, !.stoppedAfter = c.sim.steps]
        ELSE RequestFrame(fired, stepped)

\* simulate as run by the frame c, when a physics step would leave the closure
\* stepped: the store is written unless the budget is spent.
RunFrame(c, stepped) ==
    /\ Schedule(AfterFrame(c, stepped))
    /\ nodes' = IF BudgetSpent(c.sim.iteration) THEN nodes
                ELSE WriteBack(nodes, stepped.currentNodes)

\* An animation frame fires and runs its callback simulate, page.tsx:1298-1402.
simulate(c) ==
    /\ c \in frames
    /\ RunFrame(c, StepSim(c.sim))
    /\ lastOp' = "simulate"
    /\ UNCHANGED <<links, searchTerm, searchDepth, selectedFilterTags, layoutAlgorithm,
                   loaded, issuedNodes, issuedLinks, positionLog, walk, events>>
    /\ Render

(***************************************************************************)
(* The traversal of the filteredNodesAndLinks memo, one call or one loop   *)
(* iteration of traverseGraph at a time.  walk.stack is the call stack: a  *)
(* frame is a call that passed the guard of page.tsx:84, with its          *)
(* relatedLinks and the index of the next link of its for loop.  A call    *)
(* that needs more than StackLimit frames throws.                          *)
(***************************************************************************)
WalkRefusedNever(startNodeId, currentDepth, maxDepth, visitedNodesInPath) == FALSE

\* The guard of page.tsx:84.
WalkRefused(startNodeId, currentDepth, maxDepth, visitedNodesInPath) ==
    currentDepth > maxDepth \/ startNodeId \in visitedNodesInPath

\* A call traverseGraph(startNodeId, currentDepth, ...) made in walk state w:
\* page.tsx:84-95.
WalkCall(w, startNodeId, currentDepth) ==
    IF WalkRefused(startNodeId, currentDepth, searchDepth, w.visitedNodesInPath) THEN w
    ELSE IF FindIdx(nodes, startNodeId) = 0 THEN w
    ELSE IF Len(w.stack) >= StackLimit THEN [w EXCEPT !.pc = "overflow"]
    ELSE [w EXCEPT
            !.visitedNodesInPath = @ \cup {startNodeId},
            !.collectedNodes = MapSet(@, startNodeId),
            !.stack = Append(@, [node |-> startNodeId, depth |-> currentDepth,
                                 relatedLinks |-> relatedLinks(links, startNodeId),
                                 next |-> 1])]

\* The memo starts the traversal: an active filter with a matching node,
\* page.tsx:930-935.
WalkStart ==
    /\ loaded
    /\ walk.pc \in {"idle", "done"}
    /\ Len(SplitTerms(searchTerm)) > 0 \/ selectedFilterTags # {}
    /\ Len(matchedInitialNodes(nodes, SplitTerms(searchTerm), selectedFilterTags)) > 0
    /\ walk' = [pc |-> "running",
                matched |-> matchedInitialNodes(nodes, SplitTerms(searchTerm), selectedFilterTags),
                started |-> 0,
                stack |-> <<>>,
                visitedNodesInPath |-> {},
                collectedNodes |-> <<>>,
                collectedLinkIds |-> {}]
    /\ UNCHANGED <<nodes, links, searchTerm, searchDepth, selectedFilterTags,
                   layoutAlgorithm, loaded, issuedNodes, issuedLinks, memo, positionLog, lastOp,
                   force, frames, events>>

\* The next call, loop iteration or return.
WalkStep ==
    /\ walk.pc = "running"
    /\ walk' =
        IF Len(walk.stack) = 0
        THEN IF walk.started < Len(walk.matched)
             \* matchedInitialNodes.forEach: a fresh visitedNodesInPath per start node
             THEN WalkCall([walk EXCEPT !.started = @ + 1, !.visitedNodesInPath = {}],
                           walk.matched[walk.started + 1].id, 0)
             ELSE [walk EXCEPT !.pc = "done"]
        ELSE LET top == walk.stack[Len(walk.stack)]
             IN  IF top.next > Len(top.relatedLinks)
                 \* page.tsx:108: visitedNodesInPath.delete and return
                 THEN [walk EXCEPT !.stack = SubSeq(@, 1, Len(@) - 1),
                                   !.visitedNodesInPath = @ \ {top.node}]
                 \* page.tsx:99-107: one iteration of the for loop
                 ELSE LET link == top.relatedLinks[top.next]
                          neighborId == NeighborId(link, top.node)
                          advanced == [walk EXCEPT !.stack[Len(walk.stack)].next = @ + 1]
                      IN  IF FindIdx(nodes, neighborId) # 0
                          THEN WalkCall([advanced EXCEPT !.collectedLinkIds = @ \cup {link.id}],
                                        neighborId, top.depth + 1)
                          ELSE advanced
    /\ UNCHANGED <<nodes, links, searchTerm, searchDepth, selectedFilterTags,
                   layoutAlgorithm, loaded, issuedNodes, issuedLinks, memo, positionLog, lastOp,
                   force, frames, events>>

(***************************************************************************)
(* The whole page on a small canvas.                                       *)
(***************************************************************************)
PairAt(k) == <<NodeIds[((k - 1) \div Len(NodeIds)) + 1], NodeIds[((k - 1) % Len(NodeIds)) + 1]>>

PairCount == Len(NodeIds) * Len(NodeIds)

PairsAmong(count) ==
    {k \in 1..PairCount :
        /\ ((k - 1) \div Len(NodeIds)) + 1 <= count
        /\ ((k - 1) % Len(NodeIds)) + 1 <= count}

RECURSIVE IndexSeqs(_, _)
\* The sequences of at most n pair indices of S.
IndexSeqs(S, n) ==
    IF n = 0 THEN {<<>>}
    ELSE LET shorter == IndexSeqs(S, n - 1)
         IN  shorter \cup
             UNION {{Append(q, k) : k \in S} : q \in {r \in shorter : Len(r) = n - 1}}

LinksOfPairs(idx) == [k \in 1..Len(idx) |-> NewLink(k, PairAt(idx[k])[1], PairAt(idx[k])[2])]

ZeroYs == <<0, 0, 0, 0>>

PageSearchInputs == {<<>>, <<"a">>}

PageTags == {"t1"}

DroppedAt == {<<-30 * Unit, 90 * Unit>>}

\* What the user does once the data is there.
UserAction ==
    \/ applyCurrentLayout
    \/ \E input \in PageSearchInputs : setSearchTerm(input)
    \/ \E depth \in 0..MaxDepth : handleDepthChange(depth)
    \/ \E tag \in PageTags : handleFilterTagToggle(tag)
    \/ \E selNodes \in SUBSET NodeIdSet(memo.displayNodes),
          selLinks \in SUBSET LinkIdSet(memo.displayLinks) :
            handleConfirmDelete(selNodes, selLinks)
    \/ \E at \in DroppedAt : internalAddNode(at[1], at[2])
    \/ \E source, target \in NodeIdSet(nodes) : handleNodeClickLink(source, target)

Next ==
    \/ \E count \in 0..(MaxNodes - 1) : \E idx \in IndexSeqs(PairsAmong(count), MaxNewLinks) :
            loadData(count, LinksOfPairs(idx), ZeroYs)
    \/ UserAction /\ UNCHANGED events

Spec == Init /\ [][Next]_vars

(***************************************************************************)
(* The contextual traversal as a function of its inputs: a store the page  *)
(* can hold (the catalogue minus deleted nodes, whose links stay behind,   *)
(* see handleConfirmDelete), a filter and a depth, and the render that     *)
(* computes the memo from them.                                            *)
(***************************************************************************)
RECURSIVE SortedIndexSeqs(_)
\* The non-decreasing sequences of at most n pair indices.
SortedIndexSeqs(n) ==
    IF n = 0 THEN {<<>>}
    ELSE LET shorter == SortedIndexSeqs(n - 1)
         IN  shorter \cup
             UNION {{Append(q, k) : k \in (IF Len(q) = 0 THEN 1 ELSE q[Len(q)])..PairCount} :
                        q \in {r \in shorter : Len(r) = n - 1}}

GoneSets == {{}, {"B"}, {"D"}}

FilterInputs ==
    {<< <<>>, {} >>, << <<" ">>, {} >>, << <<"c">>, {} >>, << <<"a">>, {} >>,
     << <<>>, {"t1"} >>, << <<>>, {"t1", "t2"} >>, << <<"t2">>, {"t1"} >>,
     << <<"a">>, {"t2"} >>, << <<"d">>, {} >>}

InitTraverse ==
    /\ \E gone \in GoneSets, idx \in SortedIndexSeqs(MaxLinks) :
          /\ nodes = SelectSeq([k \in 1..Len(NodeIds) |-> NewNode(NodeIds[k], 0, 0)],
                               LAMBDA n : n.id \notin gone)
          /\ links = LinksOfPairs(idx)
          /\ issuedNodes = Len(NodeIds)
          /\ issuedLinks = Len(idx)
    /\ loaded = TRUE
    /\ layoutAlgorithm = "hierarchical"
    /\ positionLog = <<>>
    /\ walk = NoWalk
    /\ force = NoForce
    /\ frames = {}
    /\ events = 0
    /\ \E f \in FilterInputs : searchTerm = f[1] /\ selectedFilterTags = f[2]
    /\ searchDepth \in 0..MaxDepth
    /\ memo = NoMemo
    /\ lastOp = "init"

\* The render that evaluates the filteredNodesAndLinks memo, page.tsx:888-946.
render ==
    /\ lastOp = "init"
    /\ lastOp' = "render"
    /\ UNCHANGED <<nodes, links, searchTerm, searchDepth, selectedFilterTags,
                   layoutAlgorithm, loaded, issuedNodes, issuedLinks, positionLog, walk,
                   force, frames, events>>
    /\ Render

NextTraverse == render

SpecTraverse == InitTraverse /\ [][NextTraverse]_vars

(***************************************************************************)
(* Properties of the traversal.                                            *)
(***************************************************************************)
FilterActive == Len(SplitTerms(searchTerm)) > 0 \/ selectedFilterTags # {}

MatchedIds == NodeIdSet(matchedInitialNodes(nodes, SplitTerms(searchTerm), selectedFilterTags))

\* The nodes one undirected hop from a node of S, over links between existing nodes.
Hop(S) ==
    {v \in NodeIdSet(nodes) :
        \E i \in 1..Len(links) :
            \/ links[i].sourceNodeId \in S /\ links[i].targetNodeId = v
            \/ links[i].targetNodeId \in S /\ links[i].sourceNodeId = v}

RECURSIVE Ball(_, _)
\* The existing nodes at undirected distance at most k from a node of S.
Ball(S, k) == IF k = 0 THEN S ELSE LET inner == Ball(S, k - 1) IN inner \cup Hop(inner)

Traversed == lastOp = "render" /\ FilterActive /\ MatchedIds # {}

ShownIds == NodeIdSet(memo.displayNodes)

\* C1: with an active predicate that matches a node, the traversal returns exactly
\* the existing nodes whose undirected distance to a matching node is at most
\* maxDepth.
C1_NodesAreTheBall == Traversed => ShownIds = Ball(MatchedIds, searchDepth)

\* The example of the specification: A->B, B->C, D apart, only C matches, depth 1.
C1_Witness ==
    /\ Traversed
    /\ NodeIdSet(nodes) = {"A", "B", "C", "D"}
    /\ {<<links[i].sourceNodeId, links[i].targetNodeId>> : i \in 1..Len(links)}
           = {<<"A", "B">>, <<"B", "C">>}
    /\ MatchedIds = {"C"}
    /\ searchDepth = 1
    /\ ShownIds = {"B", "C"}

\* C2: every edge of a traversal result has both endpoints in the result's node
\* set, in every state of the store and under every predicate.
C2_EdgesAreClosed ==
    \A i \in 1..Len(memo.displayLinks) :
        /\ memo.displayLinks[i].sourceNodeId \in ShownIds
        /\ memo.displayLinks[i].targetNodeId \in ShownIds

\* The links of the store between two nodes of S, by id.
InducedLinkIds(S) ==
    {links[i].id : i \in {j \in 1..Len(links) :
        links[j].sourceNodeId \in S /\ links[j].targetNodeId \in S}}

ShownLinkIds == LinkIdSet(memo.displayLinks)

\* C3: with an active predicate that matches a node, the result holds every edge
\* of the snapshot, self-loops included, whose two endpoints are in the returned
\* node set.
C3_EdgesAreInduced == Traversed => ShownLinkIds = InducedLinkIds(ShownIds)

\* Two nodes on the rim of the ball are linked to each other, or a shown node
\* has a self-loop: an edge no walk within the depth bound goes along.
C3_Witness ==
    /\ Traversed
    /\ \E i \in 1..Len(memo.displayLinks) :
          LET l == memo.displayLinks[i]
              inner == IF searchDepth = 0 THEN {} ELSE Ball(MatchedIds, searchDepth - 1)
          IN  /\ l.sourceNodeId \notin inner
              /\ l.targetNodeId \notin inner
    /\ \E i \in 1..Len(memo.displayLinks) :
          memo.displayLinks[i].sourceNodeId = memo.displayLinks[i].targetNodeId

\* C4: at depth 0 the result is the matching nodes and no edge.
C4_DepthZeroHasNoEdges ==
    (Traversed /\ searchDepth = 0) => (ShownIds = MatchedIds /\ Len(memo.displayLinks) = 0)

\* C4, edges between matches counted: at depth 0 the result is the matching
\* nodes and the edges that join two matching nodes (a self-loop on a matching
\* node among them).
C4_DepthZeroIsInducedOnMatches ==
    (Traversed /\ searchDepth = 0) =>
        (ShownIds = MatchedIds /\ ShownLinkIds = InducedLinkIds(MatchedIds))

\* At depth 0 two matches are linked and a neighbour of a match is left out.
C4_Witness ==
    /\ Traversed
    /\ searchDepth = 0
    /\ Len(memo.displayLinks) > 0
    /\ \E v \in NodeIdSet(nodes) \ MatchedIds : v \in Hop(MatchedIds)

\* C5: the node set at depth d contains the node set at depth d - 1.
C5_DepthIsMonotone ==
    (lastOp = "render" /\ searchDepth >= 1) =>
        NodeIdSet(filteredNodesAndLinks(nodes, links, SplitTerms(searchTerm),
                      selectedFilterTags, searchDepth - 1).displayNodes) \subseteq ShownIds

\* One more hop brings a node in.
C5_Witness ==
    /\ Traversed
    /\ searchDepth >= 1
    /\ ShownIds # NodeIdSet(filteredNodesAndLinks(nodes, links, SplitTerms(searchTerm),
                      selectedFilterTags, searchDepth - 1).displayNodes)

(***************************************************************************)
(* The traversal as a process: the memo is recomputed over a store and a   *)
(* filter drawn as for SpecTraverse, and runs to completion once started,  *)
(* a render being one uninterrupted JavaScript task.                       *)
(***************************************************************************)
WalkFilters == {<<(<<"c">>), {}>>, <<(<<>>), {"t1"}>>}

WalkGoneSets == {{}, {"B"}}

\* One direction of each pair, the walk following a link either way.
WalkIndexSeqs ==
    {idx \in SortedIndexSeqs(MaxLinks) :
        \A k \in 1..Len(idx) :
            (idx[k] - 1) \div Len(NodeIds) <= (idx[k] - 1) % Len(NodeIds)}

InitWalk ==
    /\ \E gone \in WalkGoneSets, idx \in WalkIndexSeqs :
          /\ nodes = SelectSeq([k \in 1..Len(NodeIds) |-> NewNode(NodeIds[k], 0, 0)],
                               LAMBDA n : n.id \notin gone)
          /\ links = LinksOfPairs(idx)
          /\ issuedNodes = Len(NodeIds)
          /\ issuedLinks = Len(idx)
    /\ \E f \in WalkFilters :
          /\ searchTerm = f[1]
          /\ selectedFilterTags = f[2]
    /\ searchDepth \in 0..MaxDepth
    /\ loaded = TRUE
    /\ layoutAlgorithm = "hierarchical"
    /\ positionLog = <<>>
    /\ walk = NoWalk
    /\ force = NoForce
    /\ frames = {}
    /\ events = 0
    /\ memo = filteredNodesAndLinks(nodes, links, SplitTerms(searchTerm),
                                    selectedFilterTags, searchDepth)
    /\ lastOp = "loadData"

NextWalk ==
    \/ walk.pc = "idle" /\ WalkStart
    \/ WalkStep

SpecWalk == InitWalk /\ [][NextWalk]_vars /\ WF_vars(WalkStep)

\* C6: the traversal terminates on every finite graph, cycles, self-loops,
\* parallel edges and dangling edges included: a walk that has started ends,
\* with no call left on the stack.
C6_WalkTerminates == (walk.pc = "running") ~> (walk.pc = "done" /\ walk.stack = <<>>)

\* A walk has ended that went over two parallel links, which close a cycle for
\* the undirected walk, with a dangling link in the store.
C6_Witness ==
    /\ walk.pc = "done"
    /\ Len(walk.collectedNodes) >= 2
    /\ \E i, j \in 1..Len(links) :
          /\ i # j
          /\ links[i].id \in walk.collectedLinkIds
          /\ links[j].id \in walk.collectedLinkIds
          /\ links[i].sourceNodeId = links[j].sourceNodeId
          /\ links[i].targetNodeId = links[j].targetNodeId
          /\ links[i].sourceNodeId # links[i].targetNodeId
    /\ \E k \in 1..Len(links) :
          FindIdx(nodes, links[k].sourceNodeId) = 0 \/ FindIdx(nodes, links[k].targetNodeId) = 0

\* What the walk collected is what the memo shows.
WalkAgreesWithMemo ==
    walk.pc = "done" =>
        /\ walk.collectedNodes = [k \in 1..Len(memo.displayNodes) |-> memo.displayNodes[k].id]
        /\ LinkIdSet(memo.displayLinks) =
             {l.id : l \in {m \in Range(links) :
                              /\ m.id \in walk.collectedLinkIds
                              /\ m.sourceNodeId \in Range(walk.collectedNodes)
                              /\ m.targetNodeId \in Range(walk.collectedNodes)}}

(***************************************************************************)
(* The page with the force-directed algorithm selected, on a loaded canvas *)
(* of one or two nodes: the user acts a few times, before a simulation     *)
(* or during its first steps, and every animation frame requested fires    *)
(* unless it is cancelled.                                                 *)
(***************************************************************************)
Placed(id, x, y) == NewNode(id, x * Unit, y * Unit)

ForceInputs ==
    {[nodes |-> <<Placed("A", 400, 400), Placed("B", 500, 400)>>,
      links |-> <<NewLink(1, "A", "B")>>, searchTerm |-> <<>>],
     [nodes |-> <<Placed("A", 30, 400), Placed("B", 100, 400)>>,
      links |-> <<>>, searchTerm |-> <<>>],
     [nodes |-> <<Placed("A", 400, 400)>>, links |-> <<>>, searchTerm |-> <<>>]}

InitForce ==
    /\ \E input \in ForceInputs :
          /\ nodes = input.nodes
          /\ links = input.links
          /\ searchTerm = input.searchTerm
          /\ issuedNodes = Len(input.nodes)
          /\ issuedLinks = Len(input.links)
    /\ searchDepth = 1
    /\ selectedFilterTags = {}
    /\ layoutAlgorithm = "force-directed"
    /\ loaded = TRUE
    /\ memo = filteredNodesAndLinks(nodes, links, SplitTerms(searchTerm),
                                    selectedFilterTags, searchDepth)
    /\ positionLog = <<>>
    /\ lastOp = "loadData"
    /\ walk = NoWalk
    /\ force = NoForce
    /\ frames = {}
    /\ events = 0

\* Where the mouse drags a node to, before the clamp.
DraggedTo == {<<-5 * Unit, 250 * Unit>>}

\* Where the next node is dropped: each one lower than the one before.
DroppedNext == {<<at[1], at[2] + issuedNodes * DEFAULT_LINK_DISTANCE * Unit>> : at \in DroppedAt}

ForceUserAction ==
    \/ applyCurrentLayout
    \/ \E input \in PageSearchInputs : setSearchTerm(input)
    \/ \E depth \in 0..1 : handleDepthChange(depth)
    \/ \E tag \in PageTags : handleFilterTagToggle(tag)
    \/ \E algorithm \in {"hierarchical", "force-directed"} : setLayoutAlgorithm(algorithm)
    \/ \E nodeId \in NodeIdSet(nodes), to \in DraggedTo : handleNodeDrag(nodeId, to[1], to[2])
    \/ \E at \in DroppedNext : internalAddNode(at[1], at[2])
    \/ \E nodeId \in NodeIdSet(memo.displayNodes) : handleConfirmDelete({nodeId}, {})
    \/ \E linkId \in LinkIdSet(memo.displayLinks) : handleConfirmDelete({}, {linkId})

\* The user acts while no simulation runs or one has just started.
UserMayAct ==
    /\ events < MaxEvents
    /\ \A c \in frames : c.sim.steps <= MaxInterruptStep

NextForce ==
    \/ UserMayAct /\ events' = events + 1 /\ ForceUserAction
    \/ \E c \in frames : simulate(c)
    \/ mouseUpHandler

\* The browser runs a requested frame unless it is cancelled: what a frame that
\* fires does to forceLayoutRef, which no other step does.
FrameFires ==
    \E c \in frames :
        force' = [animationFrameId |-> AfterFrame(c, c.sim).animationFrameId,
                  requested |-> AfterFrame(c, c.sim).requested,
                  started |-> force.started, cancelled |-> force.cancelled,
                  stoppedAfter |-> AfterFrame(c, c.sim).stoppedAfter,
                  saved |-> AfterFrame(c, c.sim).saved]

SpecForce == InitForce /\ [][NextForce]_vars /\ WF_force(FrameFires)

(***************************************************************************)
(* The hierarchical layout as a function of its inputs: a stored canvas,   *)
(* shown whole, and the layout button.                                     *)
(***************************************************************************)
StoredYs == <<400, 0, 200, 100>>

\* A stored canvas short of the full catalogue with its links in any order,
\* shown whole; or the full catalogue less a deleted node, with stored y, shown
\* whole or filtered.
InitLayout ==
    /\ \/ /\ \E count \in 0..(Len(NodeIds) - 1) : \E idx \in IndexSeqs(PairsAmong(count), MaxLinks) :
                /\ nodes = [k \in 1..count |-> NewNode(NodeIds[k], 0, ZeroYs[k])]
                /\ links = LinksOfPairs(idx)
                /\ issuedNodes = count
                /\ issuedLinks = Len(idx)
          /\ searchTerm = <<>>
       \/ /\ \E gone \in GoneSets, idx \in SortedIndexSeqs(MaxLinks) :
                /\ nodes = SelectSeq([k \in 1..Len(NodeIds) |->
                                         NewNode(NodeIds[k], 0, StoredYs[k] * Unit)],
                                     LAMBDA n : n.id \notin gone)
                /\ links = LinksOfPairs(idx)
                /\ issuedNodes = Len(NodeIds)
                /\ issuedLinks = Len(idx)
          /\ searchTerm \in {<<>>, <<"c">>}
    /\ loaded = TRUE
    /\ layoutAlgorithm = "hierarchical"
    /\ positionLog = <<>>
    /\ walk = NoWalk
    /\ force = NoForce
    /\ frames = {}
    /\ events = 0
    /\ selectedFilterTags = {}
    /\ searchDepth = 1
    /\ memo = filteredNodesAndLinks(nodes, links, SplitTerms(searchTerm),
                                    selectedFilterTags, searchDepth)
    /\ lastOp = "loadData"

\* The layout button, and the layout button once more.
NextLayout ==
    \/ lastOp = "loadData" /\ applyCurrentLayout /\ UNCHANGED events
    \/ lastOp = "applyCurrentLayout" /\ events = 0 /\ applyCurrentLayout /\ events' = events + 1

SpecLayout == InitLayout /\ [][NextLayout]_vars

(***************************************************************************)
(* Properties of the hierarchical layout.  The laid-out set is the         *)
(* displayed node set, its edges the displayed links between its nodes.    *)
(***************************************************************************)
Laid == lastOp = "applyCurrentLayout"

LaidEdges ==
    {<<memo.displayLinks[i].sourceNodeId, memo.displayLinks[i].targetNodeId>> :
        i \in {j \in 1..Len(memo.displayLinks) :
                  /\ memo.displayLinks[j].sourceNodeId \in ShownIds
                  /\ memo.displayLinks[j].targetNodeId \in ShownIds}}

Successors(u) == {e[2] : e \in {d \in LaidEdges : d[1] = u}}

StoredNode(id) == nodes[FindIdx(nodes, id)]

\* The column a stored x stands for.
ColumnOf(id) ==
    ((StoredNode(id).x \div Unit) - PAGE_MARGIN_X) \div (DEFAULT_NODE_WIDTH + HORIZONTAL_SPACING)

RECURSIVE Descendants(_, _)
\* The nodes reached from S along at most k edges, S included.
Descendants(S, k) ==
    IF k = 0 THEN S
    ELSE LET inner == Descendants(S, k - 1)
         IN  inner \cup UNION {Successors(u) : u \in inner}

Acyclic == \A u \in ShownIds : u \notin Descendants(Successors(u), Cardinality(ShownIds))

RECURSIVE LongestPath(_)
\* The length of the longest directed path from u to a sink, on an acyclic input.
LongestPath(u) ==
    IF Successors(u) = {} THEN 0
    ELSE 1 + SetMax({LongestPath(v) : v \in Successors(u)})

\* C7: every node of out-degree 0 is in the maximum column present in the output.
C7_SinksInLastColumn ==
    Laid => \A u \in ShownIds :
                Successors(u) = {} => \A v \in ShownIds : ColumnOf(v) <= ColumnOf(u)

\* A cyclic input with a sink, an isolated node and a node left of them.
C7_Witness ==
    /\ Laid
    /\ ~Acyclic
    /\ \E u, v, w \in ShownIds :
          /\ Successors(u) = {} /\ \E p \in ShownIds : u \in Successors(p)
          /\ Successors(v) = {} /\ \A p \in ShownIds : v \notin Successors(p)
          /\ ColumnOf(w) < ColumnOf(u)

\* C8: on an acyclic input, an edge A->B puts A in a column left of B's.
C8_EdgesPointRight ==
    (Laid /\ Acyclic) =>
        \A e \in LaidEdges :
            /\ ColumnOf(e[1]) < ColumnOf(e[2])
            /\ StoredNode(e[1]).x < StoredNode(e[2]).x

\* A node with two successors in different columns.
C8_Witness ==
    /\ Laid
    /\ Acyclic
    /\ \E u \in ShownIds : \E v, w \in Successors(u) : ColumnOf(v) < ColumnOf(w)

WritesFor(id) == {k \in 1..Len(positionLog) : positionLog[k].id = id}

\* C9: the layout positions every input node exactly once, and nothing else.
C9_OnePositionPerNode ==
    Laid =>
        /\ \A id \in ShownIds :
              /\ Cardinality(WritesFor(id)) = 1
              /\ \A k \in WritesFor(id) :
                    /\ StoredNode(id).x = positionLog[k].x * Unit
                    /\ StoredNode(id).y = positionLog[k].y * Unit
        /\ \A k \in 1..Len(positionLog) : positionLog[k].id \in ShownIds

\* An input with a two-node cycle and a self-loop on a third node.
C9_Witness ==
    /\ Laid
    /\ \E u, v, w \in ShownIds :
          /\ u # v /\ v \in Successors(u) /\ u \in Successors(v)
          /\ w \notin {u, v} /\ w \in Successors(w)
    /\ Len(positionLog) = Cardinality(ShownIds)

\* C10: on an acyclic input, a node's column is the longest path of the graph
\* minus the longest path from the node to a sink.
C10_ColumnIsLongestPath ==
    (Laid /\ Acyclic) =>
        \A u \in ShownIds :
            ColumnOf(u) = SetMax({LongestPath(v) : v \in ShownIds}) - LongestPath(u)

\* The example of the specification: A->B, B->C and D apart.
C10_Witness ==
    /\ Laid
    /\ ShownIds = {"A", "B", "C", "D"}
    /\ LaidEdges = {<<"A", "B">>, <<"B", "C">>}
    /\ ColumnOf("A") = 0 /\ ColumnOf("B") = 1 /\ ColumnOf("C") = 2

\* The column each node gets when the self-loops of the displayed links are
\* left out.
ColumnsWithoutSelfLoops ==
    Columns(layerRTL(GraphIndex(memo.displayNodes,
                                SelectSeq(memo.displayLinks,
                                          LAMBDA l : l.sourceNodeId # l.targetNodeId))))

\* C11: a self-loop contributes no layering constraint: every node is in the
\* column it has in the layout of the same snapshot without its self-loops.
C11_SelfLoopsDoNotLayer ==
    Laid => \A u \in ShownIds : ColumnOf(u) = ColumnsWithoutSelfLoops[u]

\* after is the simulation before, one physics step later.
Stepped(before, after) == after.no = before.no /\ after.steps = before.steps + 1

\* Every other node of the simulation is pinned and at least margin to the
\* left of node1.
OthersPinnedLeft(sim, node1, margin) ==
    \A k \in 1..Len(sim.currentNodes) :
        LET node2 == sim.currentNodes[k]
        IN  node2.id # node1.id =>
                /\ Pinned(node2)
                /\ node2.x + margin <= node1.x
                /\ node2.fx[1] + margin <= node1.x

\* Every other node of the simulation is joined to node1 by a link.
OthersLinked(sim, node1) ==
    \A k \in 1..Len(sim.currentNodes) :
        sim.currentNodes[k].id # node1.id =>
            \E j \in 1..Len(sim.linksToConsider) :
                {sim.linksToConsider[j].sourceNodeId, sim.linksToConsider[j].targetNodeId}
                    = {node1.id, sim.currentNodes[k].id}

\* C12: in every physics step a pinned node is set exactly to (fx, fy), in the
\* simulation and in the store, and keeps its velocity and its pin; and it
\* still acts on the others: a free node at rest is pushed away from the pinned
\* nodes to its left when no link joins them, and pulled towards them when
\* links join them at more than twice the link distance.
C12_PinnedStaysPut ==
    [][\A c \in frames, d \in frames' :
          Stepped(c.sim, d.sim) =>
            \A k \in 1..Len(c.sim.currentNodes) :
                LET node1 == c.sim.currentNodes[k]
                    after == d.sim.currentNodes[k]
                IN  /\ Pinned(node1) =>
                          /\ after = [node1 EXCEPT !.x = node1.fx[1], !.y = node1.fy[1]]
                          /\ \A j \in 1..Len(nodes') :
                                nodes'[j].id = node1.id =>
                                    /\ nodes'[j].x = node1.fx[1]
                                    /\ nodes'[j].y = node1.fy[1]
                                    /\ nodes'[j].vx = node1.vx
                                    /\ nodes'[j].vy = node1.vy
                    /\ (/\ ~Pinned(node1)
                        /\ node1.vx = 0
                        /\ Len(c.sim.currentNodes) > 1
                        /\ c.sim.linksToConsider = <<>>
                        /\ OthersPinnedLeft(c.sim, node1, Unit)) => after.vx > 0
                    /\ (/\ ~Pinned(node1)
                        /\ node1.vx = 0
                        /\ Len(c.sim.currentNodes) > 1
                        /\ OthersLinked(c.sim, node1)
                        /\ OthersPinnedLeft(c.sim, node1, 2 * DEFAULT_LINK_DISTANCE * Unit))
                            => after.vx < 0]_vars

\* A simulation made a step with a pinned node, and a free node that was at
\* rest beside it now moves.
C12_Witness ==
    /\ lastOp = "simulate"
    /\ \E d \in frames :
          /\ d.sim.steps = 1
          /\ \E k, j \in 1..Len(d.sim.currentNodes) :
                /\ Pinned(d.sim.currentNodes[k])
                /\ d.sim.currentNodes[k].x = d.sim.currentNodes[k].fx[1]
                /\ ~Pinned(d.sim.currentNodes[j])
                /\ d.sim.currentNodes[j].vx # 0

\* C13: no node of the store ever has a negative coordinate.
C13_CoordinatesNotNegative ==
    \A k \in 1..Len(nodes) : nodes[k].x >= 0 /\ nodes[k].y >= 0

\* A physics step stopped a node at the left edge and turned its velocity.
C13_Witness ==
    /\ lastOp = "simulate"
    /\ \E k \in 1..Len(nodes) : nodes[k].x = 0 /\ nodes[k].vx > 0

\* C14: a simulation makes at most FORCE_DIRECTED_ITERATIONS physics steps,
\* none after it was found converged, and a pending frame handle is
\* eventually cleared.
C14_SimulationStops ==
    /\ [](/\ force.stoppedAfter <= FORCE_DIRECTED_ITERATIONS
          /\ \A c \in frames :
                /\ c.sim.steps <= FORCE_DIRECTED_ITERATIONS
                /\ c.sim.convergedAt # 0 => c.sim.steps = c.sim.convergedAt)
    /\ (force.animationFrameId # 0) ~> (force.animationFrameId = 0)

\* A simulation used its whole budget of steps and then cleared the handle.
C14_Witness ==
    /\ lastOp = "simulate"
    /\ force.animationFrameId = 0
    /\ frames = {}
    /\ force.stoppedAfter = FORCE_DIRECTED_ITERATIONS

\* C15: a simulation is found converged only at the second or a later step in
\* a row that ended below the threshold.
C15_ConvergedAfterSeveralSteps ==
    \A c \in frames : c.sim.convergedAt # 0 => c.sim.belowRun >= 2

\* C16: at most one frame is pending; it is the one forceLayoutRef holds and it
\* belongs to the simulation started last, so no earlier simulation makes a
\* step; and none is pending while the hierarchical algorithm is selected.
C16_OneSimulation ==
    /\ Cardinality(frames) <= 1
    /\ \A c \in frames :
          /\ c.handle = force.animationFrameId
          /\ c.sim.no = force.started
    /\ layoutAlgorithm = "hierarchical" => frames = {}

\* A second simulation was started over a pending frame of the first, and has
\* made a step.
C16_Witness ==
    /\ lastOp = "simulate"
    /\ force.cancelled >= 1
    /\ force.started >= 2
    /\ \E c \in frames : c.sim.steps >= 1

\* C17: a simulation that has not made a step yet has every node at rest and
\* unpinned.
C17_StartsAtRestUnpinned ==
    \A c \in frames :
        c.sim.steps = 0 =>
            \A k \in 1..Len(c.sim.currentNodes) :
                LET n == c.sim.currentNodes[k]
                IN  n.vx = 0 /\ n.vy = 0 /\ n.fx = <<>> /\ n.fy = <<>>

\* The displayed nodes, by id, at the last render.
Displayed == NodeIdSet(memo.displayNodes)

\* The position of node id in the store ns.
PositionIn(ns, id) == <<ns[FindIdx(ns, id)].x, ns[FindIdx(ns, id)].y>>

\* C18: a layout or a physics step leaves the position of every node that is
\* not displayed as it was.
C18_HiddenNodesStay ==
    [][lastOp' \in {"simulate", "applyCurrentLayout"} =>
          \A id \in NodeIdSet(nodes) \ Displayed :
              id \in NodeIdSet(nodes') => PositionIn(nodes', id) = PositionIn(nodes, id)]_vars

\* C19: a layout or a physics step leaves the set of node ids and the links as
\* they were.
C19_LayoutKeepsEntities ==
    [][lastOp' \in {"simulate", "applyCurrentLayout"} =>
          /\ NodeIdSet(nodes') = NodeIdSet(nodes)
          /\ Len(nodes') = Len(nodes)
          /\ links' = links]_vars

\* A physics step ran for a simulation that still holds a node deleted from
\* the store since it started.
C19_Witness ==
    /\ lastOp = "simulate"
    /\ \E c \in frames :
          /\ c.sim.steps >= 1
          /\ ~(NodeIdSet(c.sim.currentNodes) \subseteq NodeIdSet(nodes))

\* The handlers after which the effect of page.tsx:1439-1446 runs
\* applyCurrentLayout, and the layout button.
AppliesLayout ==
    {"applyCurrentLayout", "setSearchTerm", "handleDepthChange", "handleFilterTagToggle",
     "setLayoutAlgorithm"}

\* What is displayed, by id.
ViewOf(shown) == <<NodeIdSet(shown.displayNodes), LinkIdSet(shown.displayLinks)>>

\* C20: a step that changes what a filtered view displays applies the layout.
C20_ViewChangeAppliesLayout ==
    [][((searchTerm' # <<>> \/ selectedFilterTags' # {}) /\ ViewOf(memo') # ViewOf(memo))
          => lastOp' \in AppliesLayout]_vars

\* The distance between the two nodes of a simulation over two nodes.
PairDistance(sim) ==
    Hypot(sim.currentNodes[1].x - sim.currentNodes[2].x,
          sim.currentNodes[1].y - sim.currentNodes[2].y)

\* The simulation is over exactly two nodes joined by a link, one pinned and
\* one free.
PinnedAndFreeLinked(sim) ==
    /\ Len(sim.currentNodes) = 2
    /\ Pinned(sim.currentNodes[1]) # Pinned(sim.currentNodes[2])
    /\ OthersLinked(sim, sim.currentNodes[1])

\* The frame c fires in this step and finds the budget of its simulation
\* spent: the simulation ends, by convergence or after its last step.
Ends(c) == c \in frames /\ lastOp' = "simulate" /\ BudgetSpent(c.sim.iteration)

\* C21: a simulation over two linked nodes, one pinned and one free, ends with
\* the two at DEFAULT_LINK_DISTANCE from each other, to within a tenth of it.
C21_PinnedPairSettlesAtLinkDistance ==
    [][\A c \in frames :
          (Ends(c) /\ PinnedAndFreeLinked(c.sim)) =>
              Abs(PairDistance(c.sim) - DEFAULT_LINK_DISTANCE * Unit) * 10
                  <= DEFAULT_LINK_DISTANCE * Unit]_vars

\* No displayed link ends at u.
IsSource(u) == \A p \in ShownIds : u \notin Successors(p)

\* The rightmost column with a node in it.
LastColumn == SetMax({ColumnOf(v) : v \in ShownIds})

\* C22: on an acyclic input every node of in-degree 0 is in column 0 and every
\* node of out-degree 0 in the rightmost column.
C22_SourcesInColumnZero ==
    (Laid /\ Acyclic) =>
        \A u \in ShownIds :
            /\ IsSource(u) => ColumnOf(u) = 0
            /\ Successors(u) = {} => ColumnOf(u) = LastColumn

\* C22, sources by the length of their paths: on an acyclic input every node
\* of out-degree 0 is in the rightmost column, every node of column 0 has
\* in-degree 0, and a node of in-degree 0 is in column 0 exactly when no path
\* of the graph is longer than the longest path from it; an isolated node is
\* in the rightmost column.
C22_LongestSourcesInColumnZero ==
    (Laid /\ Acyclic) =>
        \A u \in ShownIds :
            /\ Successors(u) = {} => ColumnOf(u) = LastColumn
            /\ ColumnOf(u) = 0 => IsSource(u)
            /\ IsSource(u) =>
                  (ColumnOf(u) = 0 <=>
                      LongestPath(u) = SetMax({LongestPath(v) : v \in ShownIds}))

\* Two sources lead to the same sink by paths of different length: the nearer
\* source is not in column 0.
C22_Witness ==
    /\ Laid
    /\ Acyclic
    /\ \E u, v \in ShownIds :
          /\ IsSource(u) /\ IsSource(v)
          /\ ColumnOf(u) = 0
          /\ LongestPath(v) = 1 /\ ColumnOf(v) = 1
          /\ \E s \in Descendants({u}, 2) \cap Descendants({v}, 1) :
                Successors(s) = {} /\ ColumnOf(s) = 2

\* The graph the layout builds from what is displayed.
LaidGraph == GraphIndex(memo.displayNodes, memo.displayLinks)

\* C23: every input node, the nodes of a cycle among them, is exactly once in
\* the order the layering loop goes through, and a node with a successor gets
\* its layer from 1 + the maximum over its successors, so a layer of at least 1.
C23_CyclicNodesAreOrdered ==
    Laid =>
        \A u \in ShownIds :
            /\ Cardinality({k \in 1..Len(topoOrder(LaidGraph)) : topoOrder(LaidGraph)[k] = u}) = 1
            /\ Len(LaidGraph.adj[u]) > 0 => layerRTL(LaidGraph)[u] >= 1

\* The bottom edge of a stored node: y + height.
BottomOf(id) == StoredNode(id).y + JsOr(StoredNode(id).height, DEFAULT_NODE_HEIGHT) * Unit

\* v is below u with at least gap between them.
Below(u, v, gap) == BottomOf(u) + gap * Unit <= StoredNode(v).y

\* C24: two distinct nodes the layout placed in the same column have disjoint
\* vertical extents, at least VERTICAL_SPACING apart.
C24_NoStacking ==
    Laid =>
        \A u, v \in ShownIds :
            (u # v /\ StoredNode(u).x = StoredNode(v).x) =>
                Below(u, v, VERTICAL_SPACING) \/ Below(v, u, VERTICAL_SPACING)

\* Two nodes are stacked in one column with exactly the gap between them, as in
\* one block, and two nodes of another column are more than two gaps apart, as
\* in different blocks.
C24_Witness ==
    /\ Laid
    /\ \E u, v, w, z \in ShownIds :
          /\ StoredNode(u).x = StoredNode(v).x
          /\ StoredNode(v).y = BottomOf(u) + VERTICAL_SPACING * Unit
          /\ StoredNode(w).x = StoredNode(z).x
          /\ StoredNode(w).x # StoredNode(u).x
          /\ Below(w, z, 2 * VERTICAL_SPACING)

\* C25: a node the user dragged stays where it was dragged to through every
\* physics step: after a step, every node of the store that holds a pin is at
\* its pin.
C25_DraggedNodeStaysPut ==
    [][lastOp' = "simulate" =>
          \A k \in 1..Len(nodes') :
              Pinned(nodes'[k]) =>
                  /\ nodes'[k].x = nodes'[k].fx[1]
                  /\ nodes'[k].y = nodes'[k].fy[1]]_vars

\* C26: every link of the store has both its ends in the store's node list,
\* after any creations and confirmed deletions.
C26_StoredLinksHaveEnds ==
    \A i \in 1..Len(links) :
        /\ links[i].sourceNodeId \in NodeIdSet(nodes)
        /\ links[i].targetNodeId \in NodeIdSet(nodes)

\* C27: when the mouse is released at the end of a drag, no node of the store
\* holds a pin, and the released node is at rest.
C27_ReleaseUnpins ==
    lastOp = "mouseUpHandler" =>
        \A k \in 1..Len(nodes) : nodes[k].fx = <<>> /\ nodes[k].fy = <<>>

\* C28: a second run of the hierarchical layout, reading the positions the first
\* run wrote, leaves every node where it is.
C28_LayoutIsIdempotent ==
    [][(lastOp = "applyCurrentLayout" /\ lastOp' = "applyCurrentLayout") => nodes' = nodes]_vars

\* The layout has run twice over several blocks, which the first run put in the
\* order of their stored y, against the order of the store.
C28_Witness ==
    /\ Laid
    /\ events = 1
    /\ \E u, v \in ShownIds :
          /\ FindIdx(nodes, v) < FindIdx(nodes, u)
          /\ StoredNode(u).x = StoredNode(v).x
          /\ Below(u, v, 2 * VERTICAL_SPACING)

(***************************************************************************)
(* The force-directed layout of two free nodes stored at the same place,   *)
(* at rest, linked or not, and no other node: the layout button, then      *)
(* every animation frame of the simulation.                                *)
(***************************************************************************)
CoincidePoints == {<<0, 0>>, <<400, 400>>, <<0, 250>>, <<1000, 30>>}

CoincideLinks ==
    {<<>>, <<NewLink(1, "A", "B")>>, <<NewLink(1, "B", "A")>>,
     <<NewLink(1, "A", "B"), NewLink(2, "B", "A")>>}

InitCoincide ==
    /\ \E at \in CoincidePoints :
          nodes = <<Placed("A", at[1], at[2]), Placed("B", at[1], at[2])>>
    /\ links \in CoincideLinks
    /\ searchTerm = <<>>
    /\ issuedNodes = Len(nodes)
    /\ issuedLinks = Len(links)
    /\ searchDepth = 1
    /\ selectedFilterTags = {}
    /\ layoutAlgorithm = "force-directed"
    /\ loaded = TRUE
    /\ memo = filteredNodesAndLinks(nodes, links, SplitTerms(searchTerm),
                                    selectedFilterTags, searchDepth)
    /\ positionLog = <<>>
    /\ lastOp = "loadData"
    /\ walk = NoWalk
    /\ force = NoForce
    /\ frames = {}
    /\ events = 0

NextCoincide ==
    \/ lastOp = "loadData" /\ applyCurrentLayout /\ UNCHANGED events
    \/ \E c \in frames : simulate(c)

SpecCoincide == InitCoincide /\ [][NextCoincide]_vars

Coincide(ns) == \A j, k \in 1..Len(ns) : ns[j].x = ns[k].x /\ ns[j].y = ns[k].y

AtRest(ns) == \A k \in 1..Len(ns) : ns[k].vx = 0 /\ ns[k].vy = 0

\* C29: two free nodes at the same place, at rest and alone, are at the same
\* place and at rest after every step of the simulation, in the store and in
\* the simulation's own copies.
C29_CoincidentNodesStay ==
    /\ Coincide(nodes) /\ AtRest(nodes)
    /\ \A c \in frames : Coincide(c.sim.currentNodes) /\ AtRest(c.sim.currentNodes)

\* A simulation of two linked nodes at one place has run to its end.
C29_Witness ==
    /\ lastOp = "simulate"
    /\ force.stoppedAfter > 0
    /\ Len(nodes) = 2 /\ Len(links) > 0
    /\ ~Pinned(nodes[1]) /\ ~Pinned(nodes[2])
    /\ Coincide(nodes)

\* C30: simulate sends positions to the database only in the frame that ends a
\* run, which finds the budget spent; a step that cancels a frame sends none.
C30_SavedOnlyInLastFrame ==
    [][/\ force'.saved # force.saved =>
            /\ lastOp' = "simulate"
            /\ force'.animationFrameId = 0
            /\ \E c \in frames \ frames' : BudgetSpent(c.sim.iteration)
       /\ force'.cancelled # force.cancelled => force'.saved = force.saved]_vars

\* Where loadData put the nodes.
LoadedPositions ==
    UNION {{<<input.nodes[k].id, input.nodes[k].x, input.nodes[k].y>> :
               k \in 1..Len(input.nodes)} : input \in ForceInputs}

\* The layout was applied twice and nothing else was done: the first run was
\* cancelled after it moved a node, the store has the node where the run left
\* it, and nothing was saved.
C30_Witness ==
    /\ events = 2 /\ force.started = 2 /\ force.cancelled = 1
    /\ force.stoppedAfter = 0
    /\ force.saved = <<>>
    /\ \E k \in 1..Len(nodes) : <<nodes[k].id, nodes[k].x, nodes[k].y>> \notin LoadedPositions

====
